---- MODULE Spec2Model ----
(***************************************************************************)
(* A model of the dict-backed deque of src/src.py (class DictDeque): a     *)
(* Python dict `items` from integer keys to elements and two cursors,      *)
(* `low` and `high`.  Each method is an operator from the object (and its  *)
(* argument) to the object after the call and the call's result; each      *)
(* action of the specification is one call of one method by a client.      *)
(* The list-backed class Deque of the same file is modelled the same way;   *)
(* specification SpecEquiv makes every call on one deque of each class.     *)
(* palindromeDequeCheck is modelled statement by statement (SpecPal) and as *)
(* the function it computes.  Strings are sequences of one-character        *)
(* strings.  cleanse is modelled character by character (SpecCleanse) and   *)
(* findPalindromes statement by statement (SpecFind), the list of words     *)
(* that gatherBook fetches being its input.                                 *)
(***************************************************************************)
EXTENDS Integers, Sequences, FiniteSets, TLC

\* ------------------------------------------------------------------ bounds

\* A client makes at most MaxAdds calls of addFront/addRear in a behaviour.
MaxAdds == 4
\* The elements a client stores are 1..NumValues.
NumValues == 2
\* palindromeDequeCheck is called on strings of at most MaxStringLen characters.
MaxStringLen == 4
\* gatherBook returns at most MaxWords words, each of 1..MaxWordLen characters.
MaxWords == 2
MaxWordLen == 2

Values == 1..NumValues

\* The characters of the strings given to the functions.
Alphabet == {"a", "A", "B", " ", "!"}

\* The characters of the words gatherBook returns (split() leaves no whitespace).
BookAlphabet == {"a", "A", "B", "!"}

\* The strings of at most n characters.
StringsUpTo(n) == UNION {[1..k -> Alphabet] : k \in 0..n}

\* ---------------------------------------------------------- Python values

\* Python's None: what a call returns that executes no return statement.
None == 0

\* The outcome of a call: a returned value, or an exception raised to the caller.
Return(v) == [outcome |-> "return", value |-> v]
Raise(e) == [outcome |-> "raise", error |-> e]

\* A method call's effect: the object after the call and the call's outcome.
Effect(self, result) == [self |-> self, result |-> result]

\* The dict literal {}.
EmptyDict == [k \in {} |-> None]

\* d[k] = v on a dict.
DictSet(d, k, v) == [j \in (DOMAIN d) \cup {k} |-> IF j = k THEN v ELSE d[j]]

\* del d[k] on a dict that has the key k.
DictDel(d, k) == [j \in (DOMAIN d) \ {k} |-> d[j]]

\* k in d
DictHas(d, k) == k \in DOMAIN d

\* ------------------------------------------------------- class DictDeque

\* __init__
DictDeque_init == [items |-> EmptyDict, high |-> 1, low |-> 0]

\* isEmpty: self.items == {}
DictDeque_isEmpty(self) == self.items = EmptyDict

\* size: len(self.items)
DictDeque_size(self) == Cardinality(DOMAIN self.items)

\* Mutants of addFront: the cursor is not moved; the item goes to the rear.
DictDeque_addFront_NoDecrement(self, item) ==
    Effect([self EXCEPT !.items = DictSet(self.items, self.low, item)],
           Return(None))

DictDeque_addFront_AtRear(self, item) ==
    Effect([self EXCEPT !.items = DictSet(self.items, self.high, item),
                        !.high = self.high + 1],
           Return(None))

\* addFront: self.items[self.low] = item; self.low -= 1
DictDeque_addFront(self, item) ==
    Effect([self EXCEPT !.items = DictSet(self.items, self.low, item),
                        !.low = self.low - 1],
           Return(None))

\* Mutant of addRear: the cursor is not moved.
DictDeque_addRear_NoIncrement(self, item) ==
    Effect([self EXCEPT !.items = DictSet(self.items, self.high, item)],
           Return(None))

\* Mutants of addRear: the item goes to the front; the item is stored one key
\* too low, over the rear element.
DictDeque_addRear_AtFront(self, item) ==
    Effect([self EXCEPT !.items = DictSet(self.items, self.low, item),
                        !.low = self.low - 1],
           Return(None))

DictDeque_addRear_Overwrite(self, item) ==
    Effect([self EXCEPT !.items = DictSet(self.items, self.high - 1, item),
                        !.high = self.high + 1],
           Return(None))

\* addRear: self.items[self.high] = item; self.high += 1
DictDeque_addRear(self, item) ==
    Effect([self EXCEPT !.items = DictSet(self.items, self.high, item),
                        !.high = self.high + 1],
           Return(None))

\* Mutant of peekFront: dict.get instead of indexing, None for a missing key.
DictDeque_peekFront_Get(self) ==
    IF DictHas(self.items, self.low + 1)
    THEN Effect(self, Return(self.items[self.low + 1]))
    ELSE Effect(self, Return(None))

\* peekFront: return self.items[self.low+1]  (KeyError when the key is absent)
DictDeque_peekFront(self) ==
    IF DictHas(self.items, self.low + 1)
    THEN Effect(self, Return(self.items[self.low + 1]))
    ELSE Effect(self, Raise("KeyError"))

\* Mutant of peekRear: the key read is also deleted, as dict.pop does.
DictDeque_peekRear_Pop(self) ==
    IF DictHas(self.items, self.high - 1)
    THEN Effect([self EXCEPT !.items = DictDel(self.items, self.high - 1)],
                Return(self.items[self.high - 1]))
    ELSE Effect(self, Raise("KeyError"))

\* peekRear: return self.items[self.high-1]  (KeyError when the key is absent)
DictDeque_peekRear(self) ==
    IF DictHas(self.items, self.high - 1)
    THEN Effect(self, Return(self.items[self.high - 1]))
    ELSE Effect(self, Raise("KeyError"))

\* Mutants of removeFront: the cursor is not moved; the rear key is taken.
DictDeque_removeFront_NoIncrement(self) ==
    IF ~DictDeque_isEmpty(self)
    THEN IF DictHas(self.items, self.low + 1)
         THEN Effect([self EXCEPT !.items = DictDel(self.items, self.low + 1)],
                     Return(self.items[self.low + 1]))
         ELSE Effect(self, Raise("KeyError"))
    ELSE Effect(self, Return(None))

DictDeque_removeFront_RearKey(self) ==
    IF ~DictDeque_isEmpty(self)
    THEN IF DictHas(self.items, self.high - 1)
         THEN Effect([self EXCEPT !.items = DictDel(self.items, self.high - 1),
                                  !.low = self.low + 1],
                     Return(self.items[self.high - 1]))
         ELSE Effect(self, Raise("KeyError"))
    ELSE Effect(self, Return(None))

\* Mutant of removeFront: the entry read is not deleted.
DictDeque_removeFront_KeepsEntry(self) ==
    IF ~DictDeque_isEmpty(self)
    THEN IF DictHas(self.items, self.low + 1)
         THEN Effect([self EXCEPT !.low = self.low + 1],
                     Return(self.items[self.low + 1]))
         ELSE Effect(self, Raise("KeyError"))
    ELSE Effect(self, Return(None))

\* removeFront: guarded by `if not self.isEmpty()`; falls off the end otherwise.
DictDeque_removeFront(self) ==
    IF ~DictDeque_isEmpty(self)
    THEN IF DictHas(self.items, self.low + 1)
         THEN Effect([self EXCEPT !.items = DictDel(self.items, self.low + 1),
                                  !.low = self.low + 1],
                     Return(self.items[self.low + 1]))
         ELSE Effect(self, Raise("KeyError"))
    ELSE Effect(self, Return(None))

\* Mutants of removeRear: the entry is not deleted; the front element is returned.
DictDeque_removeRear_NoDel(self) ==
    IF ~DictDeque_isEmpty(self)
    THEN IF DictHas(self.items, self.high - 1)
         THEN Effect([self EXCEPT !.high = self.high - 1],
                     Return(self.items[self.high - 1]))
         ELSE Effect(self, Raise("KeyError"))
    ELSE Effect(self, Return(None))

DictDeque_removeRear_FrontValue(self) ==
    IF ~DictDeque_isEmpty(self)
    THEN IF DictHas(self.items, self.high - 1) /\ DictHas(self.items, self.low + 1)
         THEN Effect([self EXCEPT !.items = DictDel(self.items, self.high - 1),
                                  !.high = self.high - 1],
                     Return(self.items[self.low + 1]))
         ELSE Effect(self, Raise("KeyError"))
    ELSE Effect(self, Return(None))

\* Mutant of removeRear: no isEmpty guard, the cursor moves on an empty deque too.
DictDeque_removeRear_DriftOnEmpty(self) ==
    IF DictHas(self.items, self.high - 1)
    THEN Effect([self EXCEPT !.items = DictDel(self.items, self.high - 1),
                             !.high = self.high - 1],
                Return(self.items[self.high - 1]))
    ELSE Effect([self EXCEPT !.high = self.high - 1], Return(None))

\* removeRear: guarded by `if not self.isEmpty()`; falls off the end otherwise.
DictDeque_removeRear(self) ==
    IF ~DictDeque_isEmpty(self)
    THEN IF DictHas(self.items, self.high - 1)
         THEN Effect([self EXCEPT !.items = DictDel(self.items, self.high - 1),
                                  !.high = self.high - 1],
                     Return(self.items[self.high - 1]))
         ELSE Effect(self, Raise("KeyError"))
    ELSE Effect(self, Return(None))

\* ------------------------------------------------------------ class Deque

\* __init__: self.items = []
Deque_init == [items |-> <<>>]

\* isEmpty: self.items == []
Deque_isEmpty(self) == self.items = <<>>

\* size: len(self.items)
Deque_size(self) == Len(self.items)

\* Mutant of Deque.addFront: the item is inserted at index 0, as addRear does.
Deque_addFront_Insert0(self, item) ==
    Effect([self EXCEPT !.items = <<item>> \o self.items], Return(None))

\* addFront: self.items.append(item)
Deque_addFront(self, item) ==
    Effect([self EXCEPT !.items = Append(self.items, item)], Return(None))

\* addRear: self.items.insert(0, item)
Deque_addRear(self, item) ==
    Effect([self EXCEPT !.items = <<item>> \o self.items], Return(None))

\* removeFront: return self.items.pop()  (IndexError on an empty list)
Deque_removeFront(self) ==
    IF self.items = <<>>
    THEN Effect(self, Raise("IndexError"))
    ELSE Effect([self EXCEPT !.items = SubSeq(self.items, 1, Len(self.items) - 1)],
                Return(self.items[Len(self.items)]))

\* removeRear: return self.items.pop(0)  (IndexError on an empty list)
Deque_removeRear(self) ==
    IF self.items = <<>>
    THEN Effect(self, Raise("IndexError"))
    ELSE Effect([self EXCEPT !.items = Tail(self.items)],
                Return(Head(self.items)))

\* ------------------------------------------------------------------ state

VARIABLES
    items,      \* DictDeque.items
    low,        \* DictDeque.low
    high,       \* DictDeque.high
    call,       \* the last call made on the deque: [name, arg]
    result,     \* the outcome of that call
    pre,        \* the deque as it was when that call was made
    prevCall,   \* the call made before the last one
    adds,       \* history: number of addFront/addRear calls made
    removes,    \* history: number of removeFront/removeRear calls made on a non-empty deque
    dqItems,    \* Deque.items of the list-backed deque
    dqResult,   \* the outcome of the last call made on the list-backed deque
    dqPre,      \* the list-backed deque as it was when that call was made
    pc,         \* the statement the running function is at ("client": none is running)
    string,     \* palindromeDequeCheck: its argument
    pos,        \* palindromeDequeCheck: the number of characters the for loop has taken
    stillOK,    \* palindromeDequeCheck: stillOK
    front,      \* palindromeDequeCheck: the value of dd.peekFront() in the comparison
    iters,      \* history: the number of times the while loop's body was entered
    word,       \* cleanse: its argument
    cpos,       \* cleanse: the number of characters the for loop has taken
    cleaned,    \* cleanse: cleaned
    tokens,     \* history: the list gatherBook(url) returned to findPalindromes
    words,      \* findPalindromes: words
    wpos,       \* findPalindromes: the number of words the for loop has taken
    palindromes \* findPalindromes: palindromes

dictVars == <<items, low, high, call, result, pre, prevCall, adds, removes>>
dequeVars == <<dqItems, dqResult, dqPre>>
palVars == <<string, pos, stillOK, front, iters>>
cleanseVars == <<word, cpos, cleaned>>
findVars == <<tokens, words, wpos, palindromes>>
progVars == <<pc, palVars, cleanseVars, findVars>>
\* What palindromeDequeCheck leaves alone.
notPal == <<dequeVars, cleanseVars, findVars>>

vars == <<dictVars, dequeVars, progVars>>

\* The deque object.
Self == [items |-> items, high |-> high, low |-> low]

Call(name, arg) == [name |-> name, arg |-> arg]

NoCall == Call("none", None)

\* A DictDeque just constructed, no call made on it.
DictDequeFresh ==
    /\ items = DictDeque_init.items
    /\ low = DictDeque_init.low
    /\ high = DictDeque_init.high
    /\ call = NoCall
    /\ result = Return(None)
    /\ pre = DictDeque_init
    /\ prevCall = NoCall
    /\ adds = 0
    /\ removes = 0

\* A Deque just constructed, no call made on it.
DequeFresh ==
    /\ dqItems = Deque_init.items
    /\ dqResult = Return(None)
    /\ dqPre = Deque_init

\* palindromeDequeCheck is not running.
PalIdle ==
    /\ string = <<>>
    /\ pos = 0
    /\ stillOK = TRUE
    /\ front = None
    /\ iters = 0

\* cleanse is not running.
CleanseIdle ==
    /\ word = <<>>
    /\ cpos = 0
    /\ cleaned = <<>>

\* findPalindromes is not running.
FindIdle ==
    /\ tokens = <<>>
    /\ words = <<>>
    /\ wpos = 0
    /\ palindromes = EmptyDict

\* No function is running: the client calls the methods itself.
ProgIdle ==
    /\ pc = "client"
    /\ PalIdle
    /\ CleanseIdle
    /\ FindIdle

Init ==
    /\ ProgIdle
    /\ DictDequeFresh
    /\ DequeFresh

\* The client calls a method: the object and the history move on.
Invoke(c, effect) ==
    /\ items' = effect.self.items
    /\ low' = effect.self.low
    /\ high' = effect.self.high
    /\ call' = c
    /\ result' = effect.result
    /\ pre' = Self
    /\ prevCall' = call

AddFront ==
    \E item \in Values :
        /\ adds < MaxAdds
        /\ Invoke(Call("addFront", item), DictDeque_addFront(Self, item))
        /\ adds' = adds + 1
        /\ UNCHANGED removes

AddRear ==
    \E item \in Values :
        /\ adds < MaxAdds
        /\ Invoke(Call("addRear", item), DictDeque_addRear(Self, item))
        /\ adds' = adds + 1
        /\ UNCHANGED removes

PeekFront ==
    /\ Invoke(Call("peekFront", None), DictDeque_peekFront(Self))
    /\ UNCHANGED <<adds, removes>>

PeekRear ==
    /\ Invoke(Call("peekRear", None), DictDeque_peekRear(Self))
    /\ UNCHANGED <<adds, removes>>

RemoveFront ==
    /\ Invoke(Call("removeFront", None), DictDeque_removeFront(Self))
    /\ removes' = IF DictDeque_size(Self) > 0 THEN removes + 1 ELSE removes
    /\ UNCHANGED adds

RemoveRear ==
    /\ Invoke(Call("removeRear", None), DictDeque_removeRear(Self))
    /\ removes' = IF DictDeque_size(Self) > 0 THEN removes + 1 ELSE removes
    /\ UNCHANGED adds

\* A client of one DictDeque.
Next ==
    \/ AddFront /\ UNCHANGED <<dequeVars, progVars>>
    \/ AddRear /\ UNCHANGED <<dequeVars, progVars>>
    \/ PeekFront /\ UNCHANGED <<dequeVars, progVars>>
    \/ PeekRear /\ UNCHANGED <<dequeVars, progVars>>
    \/ RemoveFront /\ UNCHANGED <<dequeVars, progVars>>
    \/ RemoveRear /\ UNCHANGED <<dequeVars, progVars>>

Spec == Init /\ [][Next]_vars

\* ------------------------------------------- both classes, the same calls

\* The list-backed deque object.
Dq == [items |-> dqItems]

\* The client makes the call on the list-backed deque as well.
DqInvoke(effect) ==
    /\ dqItems' = effect.self.items
    /\ dqResult' = effect.result
    /\ dqPre' = Dq

BothAddFront ==
    /\ AddFront
    /\ DqInvoke(Deque_addFront(Dq, call'.arg))
    /\ UNCHANGED progVars

BothAddRear ==
    /\ AddRear
    /\ DqInvoke(Deque_addRear(Dq, call'.arg))
    /\ UNCHANGED progVars

BothRemoveFront ==
    /\ RemoveFront
    /\ DqInvoke(Deque_removeFront(Dq))
    /\ UNCHANGED progVars

BothRemoveRear ==
    /\ RemoveRear
    /\ DqInvoke(Deque_removeRear(Dq))
    /\ UNCHANGED progVars

BothIsEmpty ==
    /\ Invoke(Call("isEmpty", None), Effect(Self, Return(DictDeque_isEmpty(Self))))
    /\ DqInvoke(Effect(Dq, Return(Deque_isEmpty(Dq))))
    /\ UNCHANGED <<adds, removes, progVars>>

BothSize ==
    /\ Invoke(Call("size", None), Effect(Self, Return(DictDeque_size(Self))))
    /\ DqInvoke(Effect(Dq, Return(Deque_size(Dq))))
    /\ UNCHANGED <<adds, removes, progVars>>

EquivNext ==
    \/ BothAddFront
    \/ BothAddRear
    \/ BothRemoveFront
    \/ BothRemoveRear
    \/ BothIsEmpty
    \/ BothSize

SpecEquiv == Init /\ [][EquivNext]_vars

\* ------------------------------------------------- palindromeDequeCheck

\* The for loop: dd.addRear(c) for every character c of the string.
RECURSIVE PalFill(_, _)
PalFill(dd, s) ==
    IF s = <<>> THEN dd
    ELSE PalFill(DictDeque_addRear(dd, Head(s)).self, Tail(s))

\* The while loop, from the deque dd and the flag ok to the value returned (an
\* exception of a deque method ends the function).
RECURSIVE PalLoop(_, _)
PalLoop(dd, ok) ==
    IF DictDeque_size(dd) > 1 /\ ok
    THEN LET f == DictDeque_peekFront(dd).result
             r == DictDeque_peekRear(dd).result
             e1 == DictDeque_removeFront(dd)
             e2 == DictDeque_removeRear(e1.self)
         IN  IF f.outcome = "raise" THEN f
             ELSE IF r.outcome = "raise" THEN r
             ELSE IF f = r
                  THEN IF e1.result.outcome = "raise" THEN e1.result
                       ELSE IF e2.result.outcome = "raise" THEN e2.result
                       ELSE PalLoop(e2.self, ok)
                  ELSE PalLoop(dd, FALSE)
    ELSE Return(ok)

\* palindromeDequeCheck as a function of its argument.
palindromeDequeCheck(s) == PalLoop(PalFill(DictDeque_init, s), TRUE)

\* The function has been called: dd = DictDeque() and stillOK = True are done.
PalInit ==
    /\ string \in StringsUpTo(MaxStringLen)
    /\ pc = "for"
    /\ pos = 0
    /\ stillOK = TRUE
    /\ front = None
    /\ iters = 0
    /\ DictDequeFresh
    /\ DequeFresh
    /\ CleanseIdle
    /\ FindIdle

\* for c in string: dd.addRear(c)
PalFor ==
    /\ pc = "for"
    /\ pos < Len(string)
    /\ Invoke(Call("addRear", string[pos + 1]), DictDeque_addRear(Self, string[pos + 1]))
    /\ pos' = pos + 1
    /\ UNCHANGED <<pc, string, stillOK, front, iters, adds, removes, notPal>>

\* The for loop is exhausted.
PalForEnd ==
    /\ pc = "for"
    /\ pos = Len(string)
    /\ pc' = "while"
    /\ UNCHANGED <<dictVars, notPal, palVars>>

\* Mutant of the loop test: dd.size() > 2.
PalWhile_SizeGt2 ==
    /\ pc = "while"
    /\ IF DictDeque_size(Self) > 2 /\ stillOK
       THEN pc' = "peekFront" /\ iters' = iters + 1
       ELSE pc' = "done" /\ iters' = iters
    /\ UNCHANGED <<dictVars, notPal, string, pos, stillOK, front>>

\* while dd.size() > 1 and stillOK:   ...   return stillOK
PalWhile ==
    /\ pc = "while"
    /\ IF DictDeque_size(Self) > 1 /\ stillOK
       THEN pc' = "peekFront" /\ iters' = iters + 1
       ELSE pc' = "done" /\ iters' = iters
    /\ UNCHANGED <<dictVars, notPal, string, pos, stillOK, front>>

\* if dd.peekFront() == ... : the left operand.
PalPeekFront ==
    /\ pc = "peekFront"
    /\ Invoke(Call("peekFront", None), DictDeque_peekFront(Self))
    /\ IF result'.outcome = "raise"
       THEN pc' = "raised" /\ front' = front
       ELSE pc' = "peekRear" /\ front' = result'.value
    /\ UNCHANGED <<string, pos, stillOK, iters, adds, removes, notPal>>

\* if ... == dd.peekRear(): the right operand and the comparison; else: stillOK = False
PalPeekRear ==
    /\ pc = "peekRear"
    /\ Invoke(Call("peekRear", None), DictDeque_peekRear(Self))
    /\ IF result'.outcome = "raise"
       THEN pc' = "raised" /\ stillOK' = stillOK
       ELSE IF front = result'.value
            THEN pc' = "removeFront" /\ stillOK' = stillOK
            ELSE pc' = "while" /\ stillOK' = FALSE
    /\ UNCHANGED <<string, pos, front, iters, adds, removes, notPal>>

\* dd.removeFront()
PalRemoveFront ==
    /\ pc = "removeFront"
    /\ Invoke(Call("removeFront", None), DictDeque_removeFront(Self))
    /\ pc' = IF result'.outcome = "raise" THEN "raised" ELSE "removeRear"
    /\ UNCHANGED <<palVars, adds, removes, notPal>>

\* Mutant of the loop body: dd.removeRear() is left out.
PalRemoveRear_Skipped ==
    /\ pc = "removeRear"
    /\ pc' = "while"
    /\ UNCHANGED <<dictVars, notPal, palVars>>

\* dd.removeRear()
PalRemoveRear ==
    /\ pc = "removeRear"
    /\ Invoke(Call("removeRear", None), DictDeque_removeRear(Self))
    /\ pc' = IF result'.outcome = "raise" THEN "raised" ELSE "while"
    /\ UNCHANGED <<palVars, adds, removes, notPal>>

PalNext ==
    \/ PalFor
    \/ PalForEnd
    \/ PalWhile
    \/ PalPeekFront
    \/ PalPeekRear
    \/ PalRemoveFront
    \/ PalRemoveRear

\* The function runs to its return: nothing else is scheduled.
SpecPal == PalInit /\ [][PalNext]_vars /\ WF_vars(PalNext)

\* ---------------------------------------------------------------- cleanse

\* string.whitespace (the vertical tab, which has no escape here, left out)
Whitespace == {" ", "\t", "\n", "\r", "\f"}

\* string.punctuation (the backquote, which cannot be written here, left out)
Punctuation ==
    {"!", "\"", "#", "$", "%", "&", "'", "(", ")", "*", "+", ",", "-", ".", "/",
     ":", ";", "<", "=", ">", "?", "@", "[", "\\", "]", "^", "_", "{", "|",
     "}", "~"}

UpperCase ==
    <<"A", "B", "C", "D", "E", "F", "G", "H", "I", "J", "K", "L", "M",
      "N", "O", "P", "Q", "R", "S", "T", "U", "V", "W", "X", "Y", "Z">>

LowerCase ==
    <<"a", "b", "c", "d", "e", "f", "g", "h", "i", "j", "k", "l", "m",
      "n", "o", "p", "q", "r", "s", "t", "u", "v", "w", "x", "y", "z">>

\* char.lower() on an ASCII character
Lower(char) ==
    IF \E i \in DOMAIN UpperCase : UpperCase[i] = char
    THEN LowerCase[CHOOSE i \in DOMAIN UpperCase : UpperCase[i] = char]
    ELSE char

\* Mutants of the loop body: .lower() is left out; only whitespace is dropped.
CleanseBody_NoLower(acc, char) ==
    IF (char \in Whitespace) \/ (char \in Punctuation)
    THEN acc
    ELSE acc \o <<char>>

CleanseBody_WhitespaceOnly(acc, char) ==
    IF char \in Whitespace
    THEN acc
    ELSE acc \o <<Lower(char)>>

\* The body of the for loop: cleaned (acc) after the character char.
CleanseBody(acc, char) ==
    IF (char \in Whitespace) \/ (char \in Punctuation)
    THEN acc
    ELSE acc \o <<Lower(char)>>

\* The for loop from the characters left (rest) and cleaned so far (acc).
RECURSIVE CleanseLoop(_, _)
CleanseLoop(rest, acc) ==
    IF rest = <<>> THEN acc
    ELSE CleanseLoop(Tail(rest), CleanseBody(acc, Head(rest)))

\* cleanse as a function of its argument.
cleanse(w) == CleanseLoop(w, <<>>)

\* The function has been called: cleaned = '' is done.
CleanseInit ==
    /\ word \in StringsUpTo(MaxStringLen)
    /\ pc = "cleanse"
    /\ cpos = 0
    /\ cleaned = <<>>
    /\ FindIdle
    /\ PalIdle
    /\ DictDequeFresh
    /\ DequeFresh

\* for char in word: one pass of the body
CleanseFor ==
    /\ pc = "cleanse"
    /\ cpos < Len(word)
    /\ cleaned' = CleanseBody(cleaned, word[cpos + 1])
    /\ cpos' = cpos + 1
    /\ UNCHANGED <<pc, word, dictVars, dequeVars, palVars, findVars>>

\* return cleaned
CleanseReturn ==
    /\ pc = "cleanse"
    /\ cpos = Len(word)
    /\ pc' = "done"
    /\ UNCHANGED <<cleanseVars, dictVars, dequeVars, palVars, findVars>>

CleanseNext ==
    \/ CleanseFor
    \/ CleanseReturn

SpecCleanse == CleanseInit /\ [][CleanseNext]_vars

\* -------------------------------------------------------- findPalindromes

\* What gatherBook(url) can return: a list of non-empty words without whitespace.
BookWords == UNION {[1..k -> BookAlphabet] : k \in 1..MaxWordLen}
Books == UNION {[1..n -> BookWords] : n \in 0..MaxWords}

\* words = gatherBook(url) is done.
FindInit ==
    /\ tokens \in Books
    /\ words = tokens
    /\ pc = "find_cleanse"
    /\ wpos = 0
    /\ palindromes = EmptyDict
    /\ CleanseIdle
    /\ PalIdle
    /\ DictDequeFresh
    /\ DequeFresh

\* words = [cleanse(word) for word in words]
FindCleanse ==
    /\ pc = "find_cleanse"
    /\ words' = [i \in 1..Len(words) |-> cleanse(words[i])]
    /\ pc' = "find_filter"
    /\ UNCHANGED <<tokens, wpos, palindromes, dictVars, dequeVars, palVars, cleanseVars>>

\* words = [word for word in words if len(word) > 1]; palindromes = {}
FindFilter ==
    /\ pc = "find_filter"
    /\ words' = SelectSeq(words, LAMBDA w : Len(w) > 1)
    /\ palindromes' = EmptyDict
    /\ pc' = "find_loop"
    /\ UNCHANGED <<tokens, wpos, dictVars, dequeVars, palVars, cleanseVars>>

\* Mutant of the loop body: the count is set to 1 every time.
FindLoop_AlwaysOne ==
    /\ pc = "find_loop"
    /\ wpos < Len(words)
    /\ LET w == words[wpos + 1]
           r == palindromeDequeCheck(w)
       IN  IF r.outcome = "raise"
           THEN pc' = "raised" /\ palindromes' = palindromes
           ELSE /\ pc' = pc
                /\ palindromes' = IF r.value THEN DictSet(palindromes, w, 1)
                                  ELSE palindromes
    /\ wpos' = wpos + 1
    /\ UNCHANGED <<tokens, words, dictVars, dequeVars, palVars, cleanseVars>>

\* for word in words: if palindromeDequeCheck(word): count it
FindLoop ==
    /\ pc = "find_loop"
    /\ wpos < Len(words)
    /\ LET w == words[wpos + 1]
           r == palindromeDequeCheck(w)
       IN  IF r.outcome = "raise"
           THEN pc' = "raised" /\ palindromes' = palindromes
           ELSE /\ pc' = pc
                /\ palindromes' =
                       IF r.value
                       THEN IF ~DictHas(palindromes, w)
                            THEN DictSet(palindromes, w, 1)
                            ELSE DictSet(palindromes, w, palindromes[w] + 1)
                       ELSE palindromes
    /\ wpos' = wpos + 1
    /\ UNCHANGED <<tokens, words, dictVars, dequeVars, palVars, cleanseVars>>

\* return palindromes
FindReturn ==
    /\ pc = "find_loop"
    /\ wpos = Len(words)
    /\ pc' = "done"
    /\ UNCHANGED <<findVars, dictVars, dequeVars, palVars, cleanseVars>>

FindNext ==
    \/ FindCleanse
    \/ FindFilter
    \/ FindLoop
    \/ FindReturn

SpecFind == FindInit /\ [][FindNext]_vars

\* ------------------------------------------------------------- properties

Removes == {"removeFront", "removeRear"}
Peeks == {"peekFront", "peekRear"}

RECURSIVE Reverse(_)
Reverse(s) == IF s = <<>> THEN <<>> ELSE Reverse(Tail(s)) \o <<Head(s)>>

\* The values a client reads by calling removeFront until isEmpty (or an exception).
RECURSIVE DrainFront(_)
DrainFront(self) ==
    IF DictDeque_isEmpty(self) THEN <<>>
    ELSE LET e == DictDeque_removeFront(self)
         IN  IF e.result.outcome = "raise" THEN <<>>
             ELSE <<e.result.value>> \o DrainFront(e.self)

\* The values a client reads by calling removeRear until isEmpty (or an exception).
RECURSIVE DrainRear(_)
DrainRear(self) ==
    IF DictDeque_isEmpty(self) THEN <<>>
    ELSE LET e == DictDeque_removeRear(self)
         IN  IF e.result.outcome = "raise" THEN <<>>
             ELSE <<e.result.value>> \o DrainRear(e.self)

\* C1: in every reachable state the keys of items are exactly low+1 .. high-1
\* (none when high = low+1): no key outside the range, none missing inside it.
C1_KeysContiguous == DOMAIN items = (low + 1)..(high - 1)

\* C1's case: elements were added and removed again until the deque was empty
\* with its cursors away from where they started, and a remove was then
\* attempted on the empty deque.
C1_Witness ==
    /\ call.name \in Removes /\ DictDeque_isEmpty(pre)
    /\ removes >= 2 /\ low < -1
    /\ DOMAIN items = {}

\* C2: a removeFront or removeRear made on an empty deque raises EmptyCollection
\* to the caller; it does not complete normally with a placeholder such as None.
C2_RemoveOnEmptyRaises ==
    (call.name \in Removes /\ DictDeque_isEmpty(pre))
        => result = Raise("EmptyCollection")

\* C3: size() is the number of adds minus the number of removes made on a
\* non-empty deque, and it is never negative.
C3_SizeIsAddsMinusRemoves ==
    /\ DictDeque_size(Self) = adds - removes
    /\ DictDeque_size(Self) >= 0

\* C3's case: adds and effective removes happened, and the last remove was made
\* on an empty deque (it does not count).
C3_Witness ==
    /\ adds >= 3 /\ removes >= 3
    /\ call.name = "removeRear" /\ DictDeque_isEmpty(pre)
    /\ prevCall.name = "removeFront"

\* C4: size() = high - low - 1, and size() is 0 exactly when no key is occupied.
C4_SizeIsCursorGap ==
    /\ DictDeque_size(Self) = high - low - 1
    /\ (DictDeque_size(Self) = 0 <=> \A k \in (low + 1)..(high - 1) : ~DictHas(items, k))

\* C4's case: a deque grown at both ends and shrunk again, still holding elements.
C4_Witness ==
    /\ DictDeque_size(Self) = 2 /\ high - low = 3
    /\ low < 0 /\ high > 1 /\ removes >= 1

\* C5: isEmpty() is true if and only if high - low = 1.
C5_EmptyIffCursorsAdjacent == DictDeque_isEmpty(Self) <=> (high - low = 1)

\* C5's case: a deque emptied by removes, with the cursors away from their
\* initial positions.
C5_Witness ==
    /\ DictDeque_isEmpty(Self) /\ high - low = 1
    /\ low # 0 /\ removes >= 2 /\ call.name \in Removes /\ ~DictDeque_isEmpty(pre)

\* C6: reading the deque out by removeFront until empty gives the reverse of
\* reading the same deque out by removeRear until empty.
C6_CrossEnd == DrainFront(Self) = Reverse(DrainRear(Self))

\* C6's case: a deque built by addFront and addRear calls whose two ends differ.
C6_Witness ==
    /\ low < 0 /\ high > 1 /\ removes = 0
    /\ Len(DrainFront(Self)) >= 3
    /\ DrainFront(Self)[1] # DrainRear(Self)[1]
    /\ DrainFront(Self) = Reverse(DrainRear(Self))

C8_PeekFrame ==
    /\ call.name = "peekFront" =>
           /\ Self = pre
           /\ ~DictDeque_isEmpty(pre) =>
                  /\ result = Return(pre.items[pre.low + 1])
                  /\ DictDeque_removeFront(Self).result = result
    /\ call.name = "peekRear" =>
           /\ Self = pre
           /\ ~DictDeque_isEmpty(pre) =>
                  /\ result = Return(pre.items[pre.high - 1])
                  /\ DictDeque_removeRear(Self).result = result

\* C8's case: both peeks made on a deque whose two ends hold different elements.
C8_Witness ==
    /\ prevCall.name = "peekFront" /\ call.name = "peekRear"
    /\ DictDeque_size(Self) >= 2
    /\ result.outcome = "return"
    /\ result.value # DictDeque_peekFront(Self).result.value

\* C9: addFront(x) followed at once by removeFront() returns x and leaves
\* size() as it was before the pair.
C9_FrontRoundTrip ==
    /\ \A x \in Values :
           LET a == DictDeque_addFront(Self, x)
               r == DictDeque_removeFront(a.self)
           IN  /\ r.result = Return(x)
               /\ DictDeque_size(r.self) = DictDeque_size(Self)
    /\ (prevCall.name = "addFront" /\ call.name = "removeFront") =>
           /\ result = Return(prevCall.arg)
           /\ DictDeque_size(Self) = DictDeque_size(pre) - 1

\* C9's case: the pair made on a non-empty deque whose rear element is not x.
C9_Witness ==
    /\ prevCall.name = "addFront" /\ call.name = "removeFront"
    /\ result = Return(prevCall.arg)
    /\ DictDeque_size(Self) >= 1
    /\ DictDeque_peekRear(Self).result.value # prevCall.arg

\* C10: after addFront(a); addFront(b), peekFront() returns b and two
\* successive removeFront() calls return b and then a.
C10_FrontOrder ==
    \A a, b \in Values :
        LET s1 == DictDeque_addFront(Self, a).self
            s2 == DictDeque_addFront(s1, b).self
            p  == DictDeque_peekFront(s2)
            r1 == DictDeque_removeFront(p.self)
            r2 == DictDeque_removeFront(r1.self)
        IN  /\ p.result = Return(b)
            /\ r1.result = Return(b)
            /\ r2.result = Return(a)
            /\ r2.self = Self

\* C10's case: two different elements added at the front of a non-empty deque.
C10_Witness ==
    /\ prevCall.name = "addFront" /\ call.name = "addFront"
    /\ prevCall.arg # call.arg
    /\ DictDeque_size(Self) >= 3
    /\ DictDeque_peekFront(Self).result = Return(call.arg)
    /\ DictDeque_removeFront(DictDeque_removeFront(Self).self).result = Return(prevCall.arg)

\* C11: after addRear(a); addRear(b), peekRear() returns b and two successive
\* removeRear() calls return b and then a.
C11_RearOrder ==
    \A a, b \in Values :
        LET s1 == DictDeque_addRear(Self, a).self
            s2 == DictDeque_addRear(s1, b).self
            p  == DictDeque_peekRear(s2)
            r1 == DictDeque_removeRear(p.self)
            r2 == DictDeque_removeRear(r1.self)
        IN  /\ p.result = Return(b)
            /\ r1.result = Return(b)
            /\ r2.result = Return(a)
            /\ r2.self = Self

\* C11's case: two different elements added at the rear of a non-empty deque.
C11_Witness ==
    /\ prevCall.name = "addRear" /\ call.name = "addRear"
    /\ prevCall.arg # call.arg
    /\ DictDeque_size(Self) >= 3
    /\ DictDeque_peekRear(Self).result = Return(call.arg)
    /\ DictDeque_removeRear(DictDeque_removeRear(Self).self).result = Return(prevCall.arg)

\* C12: on a non-empty deque removeFront deletes exactly the key low+1, returns
\* its element and increments low; removeRear deletes exactly the key high-1,
\* returns its element and decrements high; the other cursor and every other
\* entry are unchanged.
C12_RemoveFrame ==
    /\ (call.name = "removeFront" /\ ~DictDeque_isEmpty(pre)) =>
           /\ result = Return(pre.items[pre.low + 1])
           /\ DOMAIN items = (DOMAIN pre.items) \ {pre.low + 1}
           /\ \A k \in DOMAIN items : items[k] = pre.items[k]
           /\ low = pre.low + 1
           /\ high = pre.high
    /\ (call.name = "removeRear" /\ ~DictDeque_isEmpty(pre)) =>
           /\ result = Return(pre.items[pre.high - 1])
           /\ DOMAIN items = (DOMAIN pre.items) \ {pre.high - 1}
           /\ \A k \in DOMAIN items : items[k] = pre.items[k]
           /\ high = pre.high - 1
           /\ low = pre.low

\* C12's case: a removeFront and then a removeRear, the second made on a deque
\* that held three elements.
C12_Witness ==
    /\ prevCall.name = "removeFront" /\ call.name = "removeRear"
    /\ DictDeque_size(pre) = 3
    /\ DictDeque_size(Self) = 2
    /\ result.value # items[high - 1]

\* C13: addFront(item) stores item at key low, which was unoccupied, and
\* decrements low; addRear(item) stores item at key high, which was unoccupied,
\* and increments high; both return normally, every entry present before is
\* still there under its key, and the other cursor is unchanged.
C13_AddFrame ==
    /\ call.name = "addFront" =>
           /\ result.outcome = "return"
           /\ ~DictHas(pre.items, pre.low)
           /\ DOMAIN items = (DOMAIN pre.items) \cup {pre.low}
           /\ items[pre.low] = call.arg
           /\ \A k \in DOMAIN pre.items : items[k] = pre.items[k]
           /\ low = pre.low - 1
           /\ high = pre.high
    /\ call.name = "addRear" =>
           /\ result.outcome = "return"
           /\ ~DictHas(pre.items, pre.high)
           /\ DOMAIN items = (DOMAIN pre.items) \cup {pre.high}
           /\ items[pre.high] = call.arg
           /\ \A k \in DOMAIN pre.items : items[k] = pre.items[k]
           /\ high = pre.high + 1
           /\ low = pre.low

\* C13's case: an addFront and then an addRear on a deque that already held
\* elements, storing an element different from its neighbour.
C13_Witness ==
    /\ prevCall.name = "addFront" /\ call.name = "addRear"
    /\ DictDeque_size(pre) >= 2
    /\ items[high - 1] = call.arg
    /\ items[high - 2] # call.arg
    /\ removes >= 1

\* C19: a removeFront or removeRear made on an empty deque leaves items, low and
\* high unchanged, so that adds and removes made afterwards still satisfy
\* high - low - 1 = size() and return the elements in deque order.
C19_EmptyRemoveNoDrift ==
    (call.name \in Removes /\ DictDeque_isEmpty(pre)) =>
        /\ Self = pre
        /\ \A a, b \in Values :
               LET s1 == DictDeque_addFront(Self, a).self
                   s2 == DictDeque_addRear(s1, b).self
               IN  /\ DictDeque_size(s2) = 2
                   /\ s2.high - s2.low - 1 = DictDeque_size(s2)
                   /\ DrainFront(s2) = <<a, b>>
                   /\ DrainRear(s2) = <<b, a>>

\* C19's case: two removes in a row attempted on a deque that never held anything.
C19_Witness ==
    /\ prevCall.name = "removeFront" /\ call.name = "removeRear"
    /\ DictDeque_isEmpty(pre) /\ adds = 0
    /\ result = Return(None)
    /\ Self = DictDeque_init

\* The elements of a dict read in increasing key order.
RECURSIVE InKeyOrder(_)
InKeyOrder(d) ==
    IF DOMAIN d = {} THEN <<>>
    ELSE LET k == CHOOSE j \in DOMAIN d : \A i \in DOMAIN d : j <= i
         IN  <<d[k]>> \o InKeyOrder(DictDel(d, k))

Queries == {"isEmpty", "size"}

\* C15: the same calls made on a Deque and on a DictDeque give the same return
\* value from every remove made on a non-empty deque and the same size() and
\* isEmpty() after every step; the DictDeque's elements in increasing key order
\* are the Deque's list read from its last element to its first.
C15_Equivalent ==
    /\ InKeyOrder(items) = Reverse(dqItems)
    /\ DictDeque_size(Self) = Deque_size(Dq)
    /\ DictDeque_isEmpty(Self) = Deque_isEmpty(Dq)
    /\ (call.name \in Removes /\ ~DictDeque_isEmpty(pre)) =>
           /\ result.outcome = "return"
           /\ result = dqResult
    /\ call.name \in Queries => result = dqResult

\* C15's case: elements went in at both ends of both deques, and a removeFront
\* and a removeRear returned the same element from each.
C15_Witness ==
    /\ prevCall.name = "removeFront" /\ call.name = "removeRear"
    /\ DictDeque_size(pre) >= 2
    /\ low < 0 /\ high > 1
    /\ result = dqResult /\ result.outcome = "return"
    /\ result.value # dqItems[1]
    /\ InKeyOrder(items) = Reverse(dqItems)

\* C18: a removeFront or removeRear made on an empty list-backed Deque raises
\* EmptyCollection to the caller and leaves the deque empty.
C18_BaselineRemoveOnEmptyRaises ==
    (call.name \in Removes /\ Deque_isEmpty(dqPre)) =>
        /\ dqResult = Raise("EmptyCollection")
        /\ Deque_isEmpty(Dq)

\* C14: palindromeDequeCheck(s) returns true if and only if s is its own
\* reverse under exact character equality, for every s of the bounded
\* alphabet and length, the lengths 0 and 1 included.
C14_PalindromeIffReverse ==
    /\ pc # "raised"
    /\ pc = "done" =>
           /\ stillOK <=> (string = Reverse(string))
           /\ palindromeDequeCheck(string) = Return(stillOK)

\* C14's case: the function has returned true for a palindrome of odd length
\* whose characters are not all the same.
C14_Witness ==
    /\ pc = "done" /\ stillOK
    /\ Len(string) = 3
    /\ string[1] # string[2]
    /\ string[1] = string[3]

LoopCalls == {"peekFront", "peekRear", "removeFront", "removeRear"}

\* What holds of the while loop at every statement: the iterations so far, what
\* each did to the deque, and the deque each method was called on.
C20_Safe ==
    /\ iters <= Len(string) \div 2
    /\ pc \in {"while", "done"} =>
           DictDeque_size(Self) = Len(string) - 2 * iters + (IF stillOK THEN 0 ELSE 2)
    /\ call.name \in {"peekFront", "peekRear", "removeFront"} => DictDeque_size(pre) >= 2
    /\ call.name = "removeRear" => DictDeque_size(pre) >= 1
    /\ call.name \in LoopCalls =>
           /\ result.outcome = "return"
           /\ result.value \in Alphabet

\* C20 (amended): on a string of length n the while loop ends within
\* floor(n/2) iterations, each removing one element from each end or clearing
\* stillOK; peekFront, peekRear and removeFront are called only on a deque of
\* at least 2 elements and removeRear only on one of at least 1, so no call
\* takes the empty-deque path.
C20_LoopBounded == [](C20_Safe) /\ <>(pc = "done")

\* C20's case: a palindrome of length 4 was consumed in exactly 2 iterations,
\* the last removeRear being made on a deque of one element.
C20_Witness ==
    /\ pc = "done" /\ stillOK
    /\ Len(string) = 4 /\ iters = 2
    /\ call.name = "removeRear"
    /\ DictDeque_size(pre) = 1

\* C20 as claimed: as above, with all four methods called only on a deque of
\* at least 2 elements.
C20_AsClaimed ==
    /\ iters <= Len(string) \div 2
    /\ pc \in {"while", "done"} =>
           DictDeque_size(Self) = Len(string) - 2 * iters + (IF stillOK THEN 0 ELSE 2)
    /\ call.name \in LoopCalls =>
           /\ DictDeque_size(pre) >= 2
           /\ result.outcome = "return"

\* The characters of a string that are neither whitespace nor punctuation, in
\* their order, each in lower case.
Normalized(w) ==
    LET kept == SelectSeq(w, LAMBDA c : c \notin (Whitespace \cup Punctuation))
    IN  [i \in 1..Len(kept) |-> Lower(kept[i])]

\* C17: cleanse(word) is the subsequence of the characters of word that are
\* neither whitespace nor punctuation, in their order, each lowercased; the
\* empty word gives the empty result; word itself is not modified.
C17_CleanseNormalizes ==
    /\ [](pc = "done" =>
             /\ cleaned = Normalized(word)
             /\ cleanse(word) = cleaned
             /\ word = <<>> => cleaned = <<>>)
    /\ [][word' = word]_vars

\* C17's case: cleanse has returned for a word holding a space, a punctuation
\* mark and capital letters.
C17_Witness ==
    /\ pc = "done"
    /\ word = <<"A", " ", "B", "!">>
    /\ cleaned = <<"a", "b">>

\* The normalized words that findPalindromes is to count: longer than one
\* character and equal to their reverse.
CountedKeys ==
    {k \in {Normalized(tokens[i]) : i \in DOMAIN tokens} :
        Len(k) > 1 /\ k = Reverse(k)}

\* C16: the mapping findPalindromes returns has as keys exactly the normalized
\* words that are longer than one character and palindromes, each with the
\* number of input words that normalize to it.
C16_PalindromeCounts ==
    /\ pc # "raised"
    /\ pc = "done" =>
           /\ DOMAIN palindromes = CountedKeys
           /\ \A k \in CountedKeys :
                  palindromes[k] =
                      Cardinality({i \in DOMAIN tokens : Normalized(tokens[i]) = k})

\* C16's case: two different words that normalize to the same palindrome were
\* counted together.
C16_Witness ==
    /\ pc = "done"
    /\ tokens = << <<"a", "A">>, <<"A", "a">> >>
    /\ DOMAIN palindromes = { <<"a", "a">> }
    /\ palindromes[<<"a", "a">>] = 2

====
